---------------------------- MODULE Spec2Model ----------------------------
(* A model of rdf/parser.go: the SPDX RDF parser that turns a stream of    *)
(* triples into a document graph.  The parser state (index, buffer, doc)   *)
(* and the entities the builders point at are modelled as one record; the  *)
(* methods of Parser are operators from parser state to parser state.      *)
EXTENDS Integers, Sequences, FiniteSets, TLC

VARIABLES
    ps,        \* the Parser: index, buffer, doc and the entities on the heap
    err,       \* the local variable err of Parser.Parse
    pc,        \* position of Parse: "loop", "drain", "returned", "freed", "panicked"
    n,         \* number of statements the producer emits before closing ch
    statement, \* the statement of the current iteration of the first loop
    recvStm,   \* statements received from ch so far
    recvLoc,   \* locators received from locCh so far
    fed,       \* number of statements handed to processTruple
    ret,       \* what Parse returned: the document pointer and the error
    scen,      \* the pair of streams compared by the order specification
    outA,      \* result of Parse on scen.a
    outB       \* result of Parse on scen.b

vars == <<ps, err, pc, n, statement, recvStm, recvLoc, fed, ret, scen, outA, outB>>

-----------------------------------------------------------------------------
(* Bounds of the model.                                                    *)

MaxTriples == 4
MaxLicTriples == 5
MaxBuffered == 3
ViewDepth == 4

-----------------------------------------------------------------------------
(* Terms.                                                                  *)

Nil == 0

uri(s) == [k |-> "uri", s |-> s]
blank(s) == [k |-> "blank", s |-> s]
literal(s) == [k |-> "literal", s |-> s]

termStr(term) == term.s

baseUri == "http://spdx.org/rdf/terms#"
licenceUri == "http://spdx.org/licenses/"

prefix(s) == uri(baseUri \o s)

uri_nstype == uri("http://www.w3.org/1999/02/22-rdf-syntax-ns#type")

typeDocument == prefix("SpdxDocument")
typeCreationInfo == prefix("CreationInfo")
typePackage == prefix("Package")
typeFile == prefix("File")
typeVerificationCode == prefix("PackageVerificationCode")
typeChecksum == prefix("Checksum")
typeArtifactOf == prefix("doap:Project")
typeReview == prefix("Review")
typeExtractedLicence == prefix("ExtractedLicensingInfo")
typeAnyLicence == prefix("AnyLicenseInfo")
typeConjunctiveSet == prefix("ConjunctiveLicenseSet")
typeDisjunctiveSet == prefix("DisjunctiveLicenseSet")
typeLicence == prefix("License")
typeAbstractLicenceSet == blank("abstractLicenceSet")

shortPrefix(pred) ==
    IF termStr(pred) = termStr(uri_nstype) THEN "ns:type" ELSE termStr(pred)

-----------------------------------------------------------------------------
(* Strings.  A string the parser looks into is spelled out as a sequence   *)
(* of tokens (single characters, or a whole namespace prefix); any other   *)
(* string is one opaque token.                                             *)

Spelling ==
    ("LicenseRef-1" :> <<"L","i","c","e","n","s","e","R","e","f","-","1">>) @@
    ("licenseref" :> <<"l","i","c","e","n","s","e","r","e","f">>) @@
    ("http://spdx.org/licenses/" :> <<"http://spdx.org/licenses/">>) @@
    ("http://spdx.org/licenses/MIT" :> <<"http://spdx.org/licenses/","M","I","T">>) @@
    ("MIT" :> <<"M","I","T">>) @@
    ("http://spdx.org/rdf/terms#" :> <<"http://spdx.org/rdf/terms#">>) @@
    ("http://spdx.org/rdf/terms#checksumAlgorithm_" :>
        <<"http://spdx.org/rdf/terms#","checksumAlgorithm_">>) @@
    ("http://spdx.org/rdf/terms#checksumAlgorithm_sha1" :>
        <<"http://spdx.org/rdf/terms#","checksumAlgorithm_","s","h","a","1">>) @@
    ("sha1" :> <<"s","h","a","1">>) @@
    ("SHA1" :> <<"S","H","A","1">>) @@
    ("http://spdx.org/rdf/terms#fileType_source" :>
        <<"http://spdx.org/rdf/terms#","fileType_source">>) @@
    ("fileType_source" :> <<"fileType_source">>) @@
    ("FILETYPE_SOURCE" :> <<"FILETYPE_SOURCE">>)

Chars(s) == IF s \in DOMAIN Spelling THEN Spelling[s] ELSE <<s>>

Str(cs) ==
    IF \E s \in DOMAIN Spelling : Spelling[s] = cs
    THEN CHOOSE s \in DOMAIN Spelling : Spelling[s] = cs
    ELSE IF Len(cs) = 1 THEN cs[1] ELSE ""

LowerOf ==
    ("L" :> "l") @@ ("R" :> "r") @@ ("M" :> "m") @@ ("I" :> "i") @@
    ("T" :> "t") @@ ("S" :> "s") @@ ("H" :> "h") @@ ("A" :> "a") @@
    ("FILETYPE_SOURCE" :> "fileType_source")

UpperOf ==
    ("l" :> "L") @@ ("i" :> "I") @@ ("c" :> "C") @@ ("e" :> "E") @@
    ("n" :> "N") @@ ("s" :> "S") @@ ("r" :> "R") @@ ("f" :> "F") @@
    ("h" :> "H") @@ ("a" :> "A") @@ ("m" :> "M") @@ ("t" :> "T") @@
    ("fileType_source" :> "FILETYPE_SOURCE")

\* a comparison that minds the case
ToLowerKeep(cs) == cs

ToLower(cs) == [i \in 1..Len(cs) |-> IF cs[i] \in DOMAIN LowerOf THEN LowerOf[cs[i]] ELSE cs[i]]
ToUpper(cs) == [i \in 1..Len(cs) |-> IF cs[i] \in DOMAIN UpperOf THEN UpperOf[cs[i]] ELSE cs[i]]

HasPrefix(cs, pre) == Len(pre) <= Len(cs) /\ SubSeq(cs, 1, Len(pre)) = pre

TrimPrefix(cs, pre) == IF HasPrefix(cs, pre) THEN SubSeq(cs, Len(pre) + 1, Len(cs)) ELSE cs

\* strings.Replace(s, old, "", 1): drop the first occurrence of old
ReplaceFirst(cs, old) ==
    LET hits == {i \in 1..Len(cs) : i + Len(old) - 1 <= Len(cs)
                                    /\ SubSeq(cs, i, i + Len(old) - 1) = old}
    IN IF hits = {} \/ Len(old) = 0 THEN cs
       ELSE LET i == CHOOSE j \in hits : \A h \in hits : j <= h
            IN SubSeq(cs, 1, i - 1) \o SubSeq(cs, i + Len(old), Len(cs))

-----------------------------------------------------------------------------
(* Errors.  spdx.NewParseError carries the *Meta it was given; fmt.Errorf  *)
(* builds a plain error.  A nil pointer dereference is the outcome "panic".*)

NoErr == [kind |-> "nil", meta |-> Nil, parseError |-> FALSE]
NewParseError(kind, meta) == [kind |-> kind, meta |-> meta, parseError |-> TRUE]
Errorf(kind) == [kind |-> kind, meta |-> Nil, parseError |-> FALSE]
Panic == [kind |-> "panic", meta |-> Nil, parseError |-> FALSE]

msgIncompatibleTypes == "IncompatibleTypes"
msgPropertyNotSupported == "PropertyNotSupported"
msgAlreadyDefined == "AlreadyDefined"
msgUnknownType == "UnknownType"
msgUnexpected == "Unexpected"

-----------------------------------------------------------------------------
(* Entities.  The heap is the sequence of the spdx values allocated so     *)
(* far; a pointer is a position in it.  An entity has the Go type of the   *)
(* value, its Meta and its fields, named after the property that writes    *)
(* them; a field that was never written is absent.  A field holds a        *)
(* sequence of cells: empty for a zero value, one cell for a single value. *)

Entity(kind, meta) == [kind |-> kind, meta |-> meta, f |-> <<>>]

Get(e, fld) == IF fld \in DOMAIN e.f THEN e.f[fld] ELSE <<>>

Put(e, fld, cells) == [e EXCEPT !.f = (fld :> cells) @@ @]

ValueStr(val, meta) == [val |-> val, meta |-> meta]

Ref(ptr) == [ref |-> ptr]

alloc(s, e) == [s EXCEPT !.heap = Append(@, e)]

store(s, ptr, fld, cells) == [s EXCEPT !.heap[ptr] = Put(@, fld, cells)]

-----------------------------------------------------------------------------
(* Builders.  The updaters map of a builder is one of the tables below,    *)
(* named after the method that builds it; set holds the names of the       *)
(* updaters whose captured flag `set` (or algoSet) is true.                *)

builder(t, ptr, updaters) == [t |-> t, ptr |-> ptr, updaters |-> updaters, set |-> {}]

nilBuilder == [t |-> [k |-> "nil", s |-> ""], ptr |-> Nil, updaters |-> "nil", set |-> {}]

Upd == [u |-> "upd"]
UpdCutPrefix(pre) == [u |-> "updCutPrefix", pre |-> pre]
UpdList == [u |-> "updList"]
UpdCreator == [u |-> "updCreator"]
UpdDate == [u |-> "updDate"]
UpdListCreator == [u |-> "updListCreator"]
ReqOne(t) == [u |-> "reqOne", need |-> t]
ReqList(t) == [u |-> "reqList", need |-> t]
AnyOne == [u |-> "anyOne"]
AnyList == [u |-> "anyList"]

documentMap ==
    ("specVersion" :> Upd) @@
    ("dataLicense" :> UpdCutPrefix(licenceUri)) @@
    ("rdfs:comment" :> Upd) @@
    ("creationInfo" :> ReqOne(typeCreationInfo)) @@
    ("describesPackage" :> ReqList(typePackage)) @@
    ("referencesFile" :> ReqList(typeFile)) @@
    ("reviewed" :> ReqList(typeReview)) @@
    ("hasExtractedLicensingInfo" :> ReqList(typeExtractedLicence))

creationInfoMap ==
    ("creator" :> UpdListCreator) @@
    ("rdfs:comment" :> Upd) @@
    ("created" :> UpdDate) @@
    ("licenseListVersion" :> Upd)

reviewMap ==
    ("reviewer" :> UpdCreator) @@
    ("rdfs:comment" :> Upd) @@
    ("reviewDate" :> UpdDate)

packageMap ==
    ("name" :> Upd) @@
    ("versionInfo" :> Upd) @@
    ("packageFileName" :> Upd) @@
    ("supplier" :> UpdCreator) @@
    ("originator" :> UpdCreator) @@
    ("downloadLocation" :> Upd) @@
    ("packageVerificationCode" :> ReqOne(typeVerificationCode)) @@
    ("checksum" :> ReqOne(typeChecksum)) @@
    ("doap:homepage" :> Upd) @@
    ("sourceInfo" :> Upd) @@
    ("licenseConcluded" :> AnyOne) @@
    ("licenseInfoFromFiles" :> AnyList) @@
    ("licenseDeclared" :> AnyOne) @@
    ("licenseComments" :> Upd) @@
    ("copyrightText" :> Upd) @@
    ("summary" :> Upd) @@
    ("description" :> Upd) @@
    ("hasFile" :> ReqList(typeFile))

checksumMap ==
    ("algorithm" :> [u |-> "algorithm"]) @@
    ("checksumValue" :> Upd)

verificationCodeMap ==
    ("packageVerificationCodeValue" :> Upd) @@
    ("packageVerificationCodeExcludedFile" :> UpdList)

fileMap ==
    ("fileName" :> Upd) @@
    ("rdfs:comment" :> Upd) @@
    ("fileType" :> UpdCutPrefix(baseUri)) @@
    ("checksum" :> ReqOne(typeChecksum)) @@
    ("copyrightText" :> Upd) @@
    ("noticeText" :> Upd) @@
    ("licenseConcluded" :> AnyOne) @@
    ("licenseInfoInFile" :> AnyList) @@
    ("licenseComments" :> Upd) @@
    ("fileContributor" :> UpdList) @@
    ("fileDependency" :> ReqList(typeFile)) @@
    ("artifactOf" :> ReqList(typeArtifactOf))

artifactOfMap ==
    ("doap:name" :> Upd) @@
    ("doap:homepage" :> Upd)

extractedLicensingInfoMap ==
    ("licenseId" :> Upd) @@
    ("name" :> UpdList) @@
    ("extractedText" :> Upd) @@
    ("rdfs:comment" :> Upd) @@
    ("rdfs:seeAlso" :> UpdList)

licenceSetMap ==
    ("member" :> [u |-> "member"]) @@
    ("ns:type" :> [u |-> "ns:type"])

\* licenceReferenceBuilder leaves the updaters map nil: no property at all
licenceReferenceBuilder == <<>>

updatersOf(b) ==
    CASE b.updaters = "documentMap" -> documentMap
      [] b.updaters = "creationInfoMap" -> creationInfoMap
      [] b.updaters = "reviewMap" -> reviewMap
      [] b.updaters = "packageMap" -> packageMap
      [] b.updaters = "checksumMap" -> checksumMap
      [] b.updaters = "verificationCodeMap" -> verificationCodeMap
      [] b.updaters = "fileMap" -> fileMap
      [] b.updaters = "artifactOfMap" -> artifactOfMap
      [] b.updaters = "extractedLicensingInfoMap" -> extractedLicensingInfoMap
      [] b.updaters = "licenceSetMap" -> licenceSetMap
      [] OTHER -> licenceReferenceBuilder

has(b, pred) == pred \in DOMAIN updatersOf(b)

equalTypes(found, need) == \E b \in need : found = b

\* compatibleTypes with the licence sets left out of the AnyLicence kinds
compatibleTypesNoSets(found, need) ==
    IF equalTypes(found, {need}) THEN TRUE
    ELSE IF equalTypes(need, {typeAnyLicence})
         THEN equalTypes(found, {typeExtractedLicence, typeLicence})
         ELSE FALSE

compatibleTypes(found, need) ==
    IF equalTypes(found, {need}) THEN TRUE
    ELSE IF equalTypes(need, {typeAnyLicence})
         THEN equalTypes(found, {typeExtractedLicence, typeConjunctiveSet,
                                 typeDisjunctiveSet, typeLicence})
         ELSE FALSE

-----------------------------------------------------------------------------
(* The resolution engine.  Every method takes the parser state s and       *)
(* returns the new state, the value it returns and its error.              *)

Res(s, val, e) == [ps |-> s, val |-> val, err |-> e]

Failed(r) == r.err # NoErr

without(f, k) == [x \in DOMAIN f \ {k} |-> f[x]]

\* log, depth and deepest are history fields: log has one entry per call of
\* builder.apply, in the order the calls return; depth counts the calls of
\* setType that are replaying a buffer, deepest is the most depth has been
NewParser ==
    [index |-> <<>>, buffer |-> <<>>, doc |-> Nil, heap |-> <<>>, log |-> <<>>,
     depth |-> 0, deepest |-> 0]

logged(r, k, property, obj, meta) ==
    Res([r.ps EXCEPT !.log = Append(@, [k |-> k, property |-> property, obj |-> obj,
                                        meta |-> meta, err |-> r.err])],
        r.val, r.err)

RECURSIVE setType(_, _, _, _)
RECURSIVE apply(_, _, _, _, _)
RECURSIVE reqType(_, _, _)
RECURSIVE runBuffer(_, _, _, _)

\* the closure returned by upd, updCreator and updDate
upd(s, k, property, term, meta) ==
    IF property \in s.index[k].set
    THEN Res(s, Nil, NewParseError(msgAlreadyDefined, meta))
    ELSE Res([store(s, s.index[k].ptr, property, <<ValueStr(termStr(term), meta)>>)
                 EXCEPT !.index[k].set = @ \cup {property}], Nil, NoErr)

updCutPrefix(s, k, property, pre, term, meta) ==
    IF property \in s.index[k].set
    THEN Res(s, Nil, NewParseError(msgAlreadyDefined, meta))
    ELSE Res([store(s, s.index[k].ptr, property,
                    <<ValueStr(Str(TrimPrefix(Chars(termStr(term)), Chars(pre))), meta)>>)
                 EXCEPT !.index[k].set = @ \cup {property}], Nil, NoErr)

\* the closure returned by updList and updListCreator
updList(s, k, property, term, meta) ==
    Res(store(s, s.index[k].ptr, property,
              Append(Get(s.heap[s.index[k].ptr], property), ValueStr(termStr(term), meta))),
        Nil, NoErr)

\* the "algorithm" updater of checksumMap
algorithm(s, k, property, term, meta) ==
    IF property \in s.index[k].set
    THEN Res(s, Nil, NewParseError(msgAlreadyDefined, meta))
    ELSE Res([store(s, s.index[k].ptr, property,
                    <<ValueStr(Str(ToUpper(ReplaceFirst(Chars(termStr(term)),
                                   Chars(baseUri \o "checksumAlgorithm_")))), meta)>>)
                 EXCEPT !.index[k].set = @ \cup {property}], Nil, NoErr)

\* e.X = x; return err, with r what p.reqX(obj) returned: on an error x is nil
assign(r, k, property, cells) ==
    IF r.err = Panic THEN Res(r.ps, Nil, Panic)
    ELSE Res(store(r.ps, r.ps.index[k].ptr, property, cells), Nil, r.err)

\* if err != nil { return err }; e.X = append(e.X, x), with r what p.reqX(obj) returned
append(r, k, property, cells) ==
    IF Failed(r) THEN Res(r.ps, Nil, r.err)
    ELSE Res(store(r.ps, r.ps.index[k].ptr, property,
                   Get(r.ps.heap[r.ps.index[k].ptr], property) \o cells),
             Nil, NoErr)

\* the pointer p.reqX(obj) returns, as the cell the caller stores
pointer(r) == IF Failed(r) THEN <<>> ELSE <<Ref(r.val)>>

reqOneStore(r, k, property) == assign(r, k, property, pointer(r))

\* a single-valued reference: x, err := p.reqX(obj); e.X = x; return err
reqOne(s, k, property, need, obj) == reqOneStore(reqType(s, obj, need), k, property)

reqListStore(r, k, property) == append(r, k, property, pointer(r))

\* a list-valued reference: x, err := p.reqX(obj); return on err; append
reqList(s, k, property, need, obj) == reqListStore(reqType(s, obj, need), k, property)

\* the type switch of reqAnyLicence on what reqType returned: a copy of a set
\* or of a Licence, a pointer to an ExtractedLicence, else nil and an error
licenceOf(r) ==
    IF Failed(r) THEN Res(r.ps, <<>>, r.err)
    ELSE IF r.ps.heap[r.val].kind \in
               {"ConjunctiveLicenceSet", "DisjunctiveLicenceSet", "Licence"}
    THEN Res(r.ps, <<r.ps.heap[r.val]>>, NoErr)
    ELSE IF r.ps.heap[r.val].kind = "ExtractedLicence"
    THEN Res(r.ps, <<Ref(r.val)>>, NoErr)
    ELSE Res(r.ps, <<>>, Errorf(msgUnexpected))

reqAnyLicence(s, node) == licenceOf(reqType(s, node, typeAnyLicence))

anyOneStore(r, k, property) == assign(r, k, property, r.val)

\* licenseConcluded, licenseDeclared: lic, err := p.reqAnyLicence(obj); e.X = lic
anyOne(s, k, property, obj) == anyOneStore(reqAnyLicence(s, obj), k, property)

anyListStore(r, k, property) == append(r, k, property, r.val)

\* licenseInfoFromFiles, licenseInfoInFile, and member (set.Add)
anyList(s, k, property, obj) == anyListStore(reqAnyLicence(s, obj), k, property)

\* a promotion that forgets the members collected so far
becomeEmpty(s, k, t, kind, meta) ==
    [alloc(s, Entity(kind, IF s.heap[s.index[k].ptr].meta = Nil
                           THEN meta ELSE s.heap[s.index[k].ptr].meta))
        EXCEPT !.index[k].t = t, !.index[k].ptr = Len(s.heap) + 1]

\* bldr.t = t; set = &promoted; bldr.ptr = &promoted
become(s, k, t, kind, meta) ==
    [alloc(s, Put(Entity(kind, IF s.heap[s.index[k].ptr].meta = Nil
                               THEN meta ELSE s.heap[s.index[k].ptr].meta),
                  "member", Get(s.heap[s.index[k].ptr], "member")))
        EXCEPT !.index[k].t = t, !.index[k].ptr = Len(s.heap) + 1]

\* a promotion that does not look at the kind the set already has
promoteAgain(s, k, obj, meta) ==
    IF equalTypes(obj, {typeConjunctiveSet})
    THEN Res(become(s, k, typeConjunctiveSet, "ConjunctiveLicenceSet", meta), Nil, NoErr)
    ELSE IF equalTypes(obj, {typeDisjunctiveSet})
    THEN Res(become(s, k, typeDisjunctiveSet, "DisjunctiveLicenceSet", meta), Nil, NoErr)
    ELSE Res(s, Nil, NewParseError(msgIncompatibleTypes, meta))

\* the "ns:type" updater of licenceSetMap: the promotion of an abstract set
promote(s, k, obj, meta) ==
    IF ~equalTypes(s.index[k].t, {typeAbstractLicenceSet})
    THEN Res(s, Nil, NewParseError(msgAlreadyDefined, meta))
    ELSE IF equalTypes(obj, {typeConjunctiveSet})
    THEN Res(become(s, k, typeConjunctiveSet, "ConjunctiveLicenceSet", meta), Nil, NoErr)
    ELSE IF equalTypes(obj, {typeDisjunctiveSet})
    THEN Res(become(s, k, typeDisjunctiveSet, "DisjunctiveLicenceSet", meta), Nil, NoErr)
    ELSE Res(s, Nil, NewParseError(msgIncompatibleTypes, meta))

\* return f(obj, meta), with d the updater f found in b.updaters
dispatch(s, k, property, d, obj, meta) ==
    CASE d.u \in {"upd", "updCreator", "updDate"} -> upd(s, k, property, obj, meta)
      [] d.u = "updCutPrefix" -> updCutPrefix(s, k, property, d.pre, obj, meta)
      [] d.u \in {"updList", "updListCreator"} -> updList(s, k, property, obj, meta)
      [] d.u = "algorithm" -> algorithm(s, k, property, obj, meta)
      [] d.u = "reqOne" -> reqOne(s, k, property, d.need, obj)
      [] d.u = "reqList" -> reqList(s, k, property, d.need, obj)
      [] d.u = "anyOne" -> anyOne(s, k, property, obj)
      [] d.u \in {"anyList", "member"} -> anyList(s, k, property, obj)
      [] d.u = "ns:type" -> promote(s, k, obj, meta)

\* apply that skips a property it does not know
applyPropertySkip(s, k, property, obj, meta) ==
    IF s.index[k] = nilBuilder THEN Res(s, Nil, Panic)
    ELSE IF ~has(s.index[k], property)
    THEN logged(Res(s, Nil, NoErr), k, property, obj, meta)
    ELSE logged(dispatch(s, k, property, updatersOf(s.index[k])[property], obj, meta),
                k, property, obj, meta)

applyProperty(s, k, property, obj, meta) ==
    IF s.index[k] = nilBuilder THEN Res(s, Nil, Panic)
    ELSE IF ~has(s.index[k], property)
    THEN logged(Res(s, Nil, NewParseError(msgPropertyNotSupported, meta)),
                k, property, obj, meta)
    ELSE logged(dispatch(s, k, property, updatersOf(s.index[k])[property], obj, meta),
                k, property, obj, meta)

apply(s, k, pred, obj, meta) == applyProperty(s, k, shortPrefix(pred), obj, meta)

\* a new builder over a new entity
make(s, e, bt, updaters) == Res(alloc(s, e), builder(bt, Len(s.heap) + 1, updaters), NoErr)

\* spdx.NewLicence(strings.TrimPrefix(termStr(node), licenceUri), meta)
licenceReferenceTerm(node, meta) ==
    Put(Entity("Licence", meta), "id",
        <<ValueStr(Str(TrimPrefix(Chars(termStr(node)), Chars(licenceUri))), meta)>>)

\* the ArtifactOf of a node: its ProjectUri is the node when the node is a Uri
artifactOf(node, meta) ==
    IF node.k = "uri"
    THEN Put(Entity("ArtifactOf", meta), "ProjectUri", <<ValueStr(termStr(node), meta)>>)
    ELSE Entity("ArtifactOf", meta)

\* the switch of setType that makes the builder of a new node
newBuilder(s, node, t, meta) ==
    CASE t = typeDocument ->
           Res([alloc(s, Entity("Document", meta)) EXCEPT !.doc = Len(s.heap) + 1],
               builder(typeDocument, Len(s.heap) + 1, "documentMap"), NoErr)
      [] t = typeCreationInfo ->
           make(s, Entity("CreationInfo", meta), typeCreationInfo, "creationInfoMap")
      [] t = typePackage -> make(s, Entity("Package", meta), typePackage, "packageMap")
      [] t = typeChecksum -> make(s, Entity("Checksum", meta), typeChecksum, "checksumMap")
      [] t = typeVerificationCode ->
           make(s, Entity("VerificationCode", meta), typeVerificationCode,
                "verificationCodeMap")
      [] t = typeFile -> make(s, Entity("File", meta), typeFile, "fileMap")
      [] t = typeReview -> make(s, Entity("Review", meta), typeReview, "reviewMap")
      [] t = typeArtifactOf -> make(s, artifactOf(node, meta), typeArtifactOf, "artifactOfMap")
      [] t = typeExtractedLicence ->
           make(s, Entity("ExtractedLicence", meta), typeExtractedLicence,
                "extractedLicensingInfoMap")
      [] t = typeAnyLicence ->
           IF node.k = "uri"
           THEN make(s, licenceReferenceTerm(node, meta), typeLicence, "licenceReferenceBuilder")
           ELSE IF node.k = "blank"
           THEN IF HasPrefix(ToLower(Chars(termStr(node))), Chars("licenseref"))
                THEN make(s, Entity("ExtractedLicence", meta), typeExtractedLicence,
                          "extractedLicensingInfoMap")
                ELSE make(s, Entity("LicenceSet", meta), typeAbstractLicenceSet,
                          "licenceSetMap")
           ELSE Res(s, nilBuilder, NoErr)
      [] t = typeLicence ->
           make(s, licenceReferenceTerm(node, meta), typeLicence, "licenceReferenceBuilder")
      [] t = typeAbstractLicenceSet ->
           make(s, Entity("LicenceSet", meta), typeAbstractLicenceSet, "licenceSetMap")
      [] t = typeConjunctiveSet ->
           make(s, Entity("ConjunctiveLicenceSet", meta), typeConjunctiveSet, "licenceSetMap")
      [] t = typeDisjunctiveSet ->
           make(s, Entity("DisjunctiveLicenceSet", meta), typeDisjunctiveSet, "licenceSetMap")
      [] OTHER -> Res(s, nilBuilder, NewParseError(msgUnknownType, meta))

\* after bldr.apply on a buffered statement: return its error, or go on
runBufferNext(r, nodeStr, buf, i) ==
    IF Failed(r) THEN Res(r.ps, Nil, r.err) ELSE runBuffer(r.ps, nodeStr, buf, i + 1)

\* the loop of setType that replays the buffer of a new node, and its return
runBuffer(s, nodeStr, buf, i) ==
    IF i > Len(buf)
    THEN IF s.index[nodeStr] = nilBuilder
         THEN Res(s, Nil, Panic)
         ELSE Res([s EXCEPT !.buffer = without(@, nodeStr), !.depth = @ - 1],
                  s.index[nodeStr].ptr, NoErr)
    ELSE runBufferNext(apply(s, nodeStr, buf[i].stm.Predicate, buf[i].stm.Object, buf[i].meta),
                       nodeStr, buf, i)

\* p.index[nodeStr] = bldr and the replay, with nb the outcome of the switch
register(s, nb, nodeStr) ==
    IF Failed(nb) THEN Res(s, Nil, nb.err)
    ELSE runBuffer([nb.ps EXCEPT !.index = (nodeStr :> nb.val) @@ @,
                                 !.depth = @ + 1,
                                 !.deepest = IF @ > nb.ps.depth THEN @ ELSE nb.ps.depth + 1],
                   nodeStr,
                   IF nodeStr \in DOMAIN s.buffer THEN s.buffer[nodeStr] ELSE <<>>,
                   1)

\* after the type change was applied: return bldr.ptr, or the error
promoted(r, nodeStr) ==
    IF Failed(r) THEN Res(r.ps, Nil, r.err) ELSE Res(r.ps, r.ps.index[nodeStr].ptr, NoErr)

\* setType on a node that has a builder
retype(s, nodeStr, t, meta) ==
    IF s.index[nodeStr] = nilBuilder THEN Res(s, Nil, Panic)
    ELSE IF ~equalTypes(s.index[nodeStr].t, {t}) /\ has(s.index[nodeStr], "ns:type")
    THEN promoted(apply(s, nodeStr, uri("ns:type"), t, meta), nodeStr)
    ELSE IF ~compatibleTypes(s.index[nodeStr].t, t)
    THEN Res(s, Nil, NewParseError(msgIncompatibleTypes, meta))
    ELSE Res(s, s.index[nodeStr].ptr, NoErr)

setType(s, node, t, meta) ==
    IF termStr(node) \in DOMAIN s.index
    THEN retype(s, termStr(node), t, meta)
    ELSE register(s, newBuilder(s, node, t, meta), termStr(node))

\* reqType that does not create the node it misses
reqTypeNoCreate(s, node, t) ==
    IF termStr(node) \in DOMAIN s.index
    THEN IF s.index[termStr(node)] = nilBuilder THEN Res(s, Nil, Panic)
         ELSE IF ~compatibleTypes(s.index[termStr(node)].t, t)
         THEN Res(s, Nil, Errorf(msgIncompatibleTypes))
         ELSE Res(s, s.index[termStr(node)].ptr, NoErr)
    ELSE Res(s, Nil, Errorf(msgIncompatibleTypes))

reqType(s, node, t) ==
    IF termStr(node) \in DOMAIN s.index
    THEN IF s.index[termStr(node)] = nilBuilder THEN Res(s, Nil, Panic)
         ELSE IF ~compatibleTypes(s.index[termStr(node)].t, t)
         THEN Res(s, Nil, Errorf(msgIncompatibleTypes))
         ELSE Res(s, s.index[termStr(node)].ptr, NoErr)
    ELSE setType(s, node, t, Nil)

Statement(subj, pred, obj) == [Subject |-> subj, Predicate |-> pred, Object |-> obj]

bufferEntry(stm, meta) == [stm |-> stm, meta |-> meta]

\* _, err := p.setType(...); return err
typed(r) == Res(r.ps, Nil, r.err)

\* a buffer that grows at its front
bufferedFront(s, node, stm, meta) ==
    [s EXCEPT !.buffer = (node :> (<<bufferEntry(stm, meta)>> \o
                                   IF node \in DOMAIN @ THEN @[node] ELSE <<>>)) @@ @]

\* a buffer whose first statement is appended when the slice is made and
\* once more after it
bufferedTwice(s, node, stm, meta) ==
    [s EXCEPT !.buffer = (node :> (IF node \in DOMAIN @
                                   THEN Append(@[node], bufferEntry(stm, meta))
                                   ELSE <<bufferEntry(stm, meta), bufferEntry(stm, meta)>>))
                         @@ @]

\* p.buffer[node] = append(p.buffer[node], bufferEntry{stm, meta})
buffered(s, node, stm, meta) ==
    [s EXCEPT !.buffer = (node :> Append(IF node \in DOMAIN @ THEN @[node] ELSE <<>>,
                                         bufferEntry(stm, meta))) @@ @]

processTruple(s, stm, meta) ==
    IF stm.Predicate = uri_nstype
    THEN typed(setType(s, stm.Subject, stm.Object, meta))
    ELSE IF termStr(stm.Subject) \in DOMAIN s.index
    THEN apply(s, termStr(stm.Subject), stm.Predicate, stm.Object, meta)
    ELSE Res(buffered(s, termStr(stm.Subject), stm, meta), Nil, NoErr)

\* spdx.NewMetaL(locator.Line): the i-th statement is on line i
NewMetaL(line) == line

RECURSIVE parseLoop(_, _, _)

\* if err = p.processTruple(statement, meta); err != nil { break }
parseNext(r, stream, i) == IF Failed(r) THEN r ELSE parseLoop(r.ps, stream, i + 1)

parseLoop(s, stream, i) ==
    IF i > Len(stream) THEN Res(s, Nil, NoErr)
    ELSE parseNext(processTruple(s, stream[i], NewMetaL(i)), stream, i)

\* return p.doc, err; with the parser as it is left
returned(r) == [doc |-> r.ps.doc, err |-> r.err, ps |-> r.ps]

\* Parser.Parse as a function of the whole stream
Parse(stream) == returned(parseLoop(NewParser, stream, 1))

-----------------------------------------------------------------------------
(* Parser.Parse step by step.  The producer emits n statements on ch, one  *)
(* locator on locCh for each, and closes ch; the statements themselves are *)
(* drawn from a vocabulary as they are received.                           *)

NoStatement == [Subject |-> blank(""), Predicate |-> blank(""), Object |-> blank("")]
NoRet == [doc |-> Nil, err |-> NoErr, returned |-> FALSE]
NoScen == [kind |-> "none"]
NoOut == [done |-> FALSE, doc |-> Nil, err |-> NoErr, ps |-> NewParser]

InitParse(max) ==
    /\ ps = NewParser
    /\ err = NoErr
    /\ pc = "loop"
    /\ n \in 0..max
    /\ statement = NoStatement
    /\ recvStm = 0
    /\ recvLoc = 0
    /\ fed = 0
    /\ ret = NoRet
    /\ scen = NoScen
    /\ outA = NoOut
    /\ outB = NoOut

\* the first loop without its break
afterTrupleNoBreak(r) ==
    IF r.err = Panic THEN "panicked" ELSE "loop"

\* what the first loop does with the result of processTruple
afterTruple(r) ==
    IF r.err = Panic THEN "panicked" ELSE IF Failed(r) THEN "drain" ELSE "loop"

\* err = p.processTruple(statement, meta), and the break
broke(r) ==
    /\ ps' = r.ps
    /\ err' = r.err
    /\ pc' = afterTruple(r)

\* one iteration of the first loop: statement, locator, processTruple, break
ParseLoop(stm) ==
    /\ pc = "loop"
    /\ recvStm < n
    /\ statement' = stm
    /\ recvStm' = recvStm + 1
    /\ recvLoc' = recvLoc + 1
    /\ broke(processTruple(ps, stm, NewMetaL(recvLoc + 1)))
    /\ fed' = fed + 1
    /\ UNCHANGED <<n, ret, scen, outA, outB>>

\* one iteration of the second loop: for _ = range ch { <-locCh }
ParseDrain ==
    /\ pc = "drain"
    /\ recvStm < n
    /\ recvStm' = recvStm + 1
    /\ recvLoc' = recvLoc + 1
    /\ UNCHANGED <<ps, err, pc, n, statement, fed, ret, scen, outA, outB>>

\* Parse without its second loop: it returns right after the break
ParseReturnNoDrain ==
    /\ \/ pc = "loop" /\ recvStm = n
       \/ pc = "drain"
    /\ pc' = "returned"
    /\ ret' = [doc |-> ps.doc, err |-> err, returned |-> TRUE]
    /\ UNCHANGED <<ps, err, n, statement, recvStm, recvLoc, fed, scen, outA, outB>>

\* Parse that returns no document along with an error
ParseReturnNilOnError ==
    /\ pc \in {"loop", "drain"}
    /\ recvStm = n
    /\ pc' = "returned"
    /\ ret' = [doc |-> IF err = NoErr THEN ps.doc ELSE Nil, err |-> err, returned |-> TRUE]
    /\ UNCHANGED <<ps, err, n, statement, recvStm, recvLoc, fed, scen, outA, outB>>

\* ch is closed: both loops are over, return p.doc, err
ParseReturn ==
    /\ pc \in {"loop", "drain"}
    /\ recvStm = n
    /\ pc' = "returned"
    /\ ret' = [doc |-> ps.doc, err |-> err, returned |-> TRUE]
    /\ UNCHANGED <<ps, err, n, statement, recvStm, recvLoc, fed, scen, outA, outB>>

\* the deferred parser.Free() of Parse(input, format)
Free ==
    /\ pc = "returned"
    /\ pc' = "freed"
    /\ ps' = [ps EXCEPT !.doc = Nil]
    /\ UNCHANGED <<err, n, statement, recvStm, recvLoc, fed, ret, scen, outA, outB>>

-----------------------------------------------------------------------------
(* The vocabulary of the general specification: a document, a package, an  *)
(* anonymous node that is a checksum, a licence set or a second document,  *)
(* scalar and                                                              *)
(* reference properties, a literal where a node is expected, an unknown    *)
(* type and an unknown property.                                           *)

nodeD == uri("d")
nodeP == uri("p")
nodeC == blank("c")
typeBogus == prefix("Bogus")

IsA(node, t) == Statement(node, uri_nstype, t)

Triples ==
    { IsA(nodeD, typeDocument),
      IsA(nodeP, typePackage),
      IsA(nodeP, typeBogus),
      Statement(nodeP, uri("name"), literal("a")),
      Statement(nodeP, uri("name"), literal("b")),
      Statement(nodeP, uri("bogus"), literal("a")),
      Statement(nodeD, uri("describesPackage"), nodeP),
      Statement(nodeP, uri("checksum"), nodeC),
      Statement(nodeP, uri("checksum"), literal("a")),
      IsA(nodeC, typeDocument),
      IsA(nodeC, typeAnyLicence),
      IsA(nodeC, typeConjunctiveSet),
      IsA(nodeC, typeBogus) }

Init == InitParse(MaxTriples)

Next ==
    \/ \E stm \in Triples : ParseLoop(stm)
    \/ ParseDrain
    \/ ParseReturn
    \/ Free

Spec == Init /\ [][Next]_vars

TypeOK ==
    /\ pc \in {"loop", "drain", "returned", "freed", "panicked"}
    /\ recvStm \in 0..n
    /\ recvLoc \in 0..n
    /\ fed \in 0..n

-----------------------------------------------------------------------------
(* Claims about Parse.                                                     *)

\* C9: Parse returns only after the stream is exhausted: when Parse has
\* returned (and when the producer is freed) all n statements were received,
\* also those after a failing one, and at every moment between two
\* iterations one locator was received for each received statement.
C9_DrainOnError ==
    /\ recvLoc = recvStm
    /\ pc \in {"returned", "freed"} => recvStm = n /\ recvLoc = n

\* C9 witness: Parse returned an error raised before the end of the stream
C9_Witness ==
    /\ pc = "returned"
    /\ ret.err # NoErr
    /\ fed < n
    /\ recvStm = n

\* C10: Parse returns the first error of processTruple: once err is set no
\* statement is handed to the engine, the index, the buffer, the entities and
\* the root document stay as the failing call left them, err is not replaced,
\* and the return carries that error and that document.
C10_FirstError ==
    [][ (err # NoErr /\ err # Panic) =>
          /\ err' = err
          /\ fed' = fed
          /\ ps'.index = ps.index
          /\ ps'.buffer = ps.buffer
          /\ ps'.heap = ps.heap
          /\ ps'.log = ps.log
          /\ pc' # "freed" => ps'.doc = ps.doc
          /\ ret'.returned => ret'.err = err /\ ret'.doc = ps.doc ]_vars

\* C10 witness: an error was returned although statements came after it
C10_Witness ==
    /\ pc = "returned"
    /\ ret.err # NoErr
    /\ ret.err = err
    /\ fed < recvStm

-----------------------------------------------------------------------------
(* Claims about the property tables.  The log holds every call of          *)
(* builder.apply, direct or during a replay, with the error it returned.   *)

SingleScalar == {"upd", "updCutPrefix", "updCreator", "updDate", "algorithm"}
SingleReference == {"reqOne", "anyOne"}

\* the updater a log entry ran, "none" when the table has no such property
updaterOf(e) ==
    IF e.property \in DOMAIN updatersOf(ps.index[e.k])
    THEN updatersOf(ps.index[e.k])[e.property].u
    ELSE "none"

\* a later write j of the property an earlier call i wrote on the same node
SecondWrite(i, j) ==
    /\ i < j
    /\ ps.log[i].k = ps.log[j].k
    /\ ps.log[i].property = ps.log[j].property

\* C4 as stated: the second write of any single-valued property, scalar or
\* reference-valued, returns Already-Defined.
C4_SecondWriteRejected ==
    \A i, j \in 1..Len(ps.log) :
        SecondWrite(i, j) /\ updaterOf(ps.log[j]) \in SingleScalar \cup SingleReference
            => ps.log[j].err.kind = msgAlreadyDefined

RecognisedTypes ==
    { typeDocument, typeCreationInfo, typePackage, typeFile, typeVerificationCode,
      typeChecksum, typeArtifactOf, typeReview, typeExtractedLicence, typeAnyLicence,
      typeConjunctiveSet, typeDisjunctiveSet, typeLicence, typeAbstractLicenceSet }

\* the statement just handed to processTruple asserts an unrecognised type
UnknownTypeFed ==
    /\ fed > 0
    /\ pc # "panicked"
    /\ statement.Predicate = uri_nstype
    /\ statement.Object \notin RecognisedTypes

\* every call of apply with a property outside the table of the builder
\* returned Property-Not-Supported
UnsupportedRejected ==
    \A i \in 1..Len(ps.log) :
        updaterOf(ps.log[i]) = "none"
            => ps.log[i].err = NewParseError(msgPropertyNotSupported, ps.log[i].meta)

\* C8 as stated: an unrecognised type always gives Unknown-Type, and a
\* property outside the table always gives Property-Not-Supported.
C8_UnknownAlwaysUnknownType ==
    /\ UnknownTypeFed => err.kind = msgUnknownType
    /\ UnsupportedRejected

\* the error of a type assertion t that a resolved node b rejects
RetypeError(b) ==
    IF has(b, "ns:type") /\ b.t # typeAbstractLicenceSet
    THEN msgAlreadyDefined
    ELSE msgIncompatibleTypes

\* C8 amended: an unrecognised type always fails the parse, with Unknown-Type
\* when the subject is unresolved and with Incompatible-Type (Already-Defined
\* for a Conjunctive or Disjunctive set) when it is resolved; a property
\* outside the table gives Property-Not-Supported whenever it is dispatched,
\* directly or during a replay.
C8_UnknownRejected ==
    /\ UnknownTypeFed =>
          /\ err # NoErr
          /\ termStr(statement.Subject) \notin DOMAIN ps.index => err.kind = msgUnknownType
          /\ termStr(statement.Subject) \in DOMAIN ps.index
                => err.kind = RetypeError(ps.index[termStr(statement.Subject)])
    /\ UnsupportedRejected

\* C8 witness: a statement with an unsupported property, buffered earlier,
\* is rejected when its subject is typed
C8_Witness ==
    /\ fed > 0
    /\ statement.Predicate = uri_nstype
    /\ err.kind = msgPropertyNotSupported
    /\ err.meta < fed
    /\ \E i \in 1..Len(ps.log) : updaterOf(ps.log[i]) = "none" /\ ps.log[i].err = err

\* C14: after processTruple has returned, with or without an error, no key
\* has both a builder in the index and an entry in the buffer.
C14_BufferOnlyForUnresolved ==
    pc # "panicked" => DOMAIN ps.index \cap DOMAIN ps.buffer = {}

\* the keys of the URI and blank terms of the vocabulary
NodeKeys ==
    {termStr(stm.Subject) : stm \in {x \in Triples : x.Subject.k # "literal"}}
    \cup {termStr(stm.Object) : stm \in {x \in Triples : x.Object.k # "literal"}}

\* C16: every key of the index and of the buffer is the URI or the label of
\* a URI or blank term; the value of a literal is never a key.
C16_NoLiteralKeys ==
    (DOMAIN ps.index \cup DOMAIN ps.buffer) \subseteq NodeKeys

ErrorKinds ==
    {msgUnknownType, msgIncompatibleTypes, msgPropertyNotSupported, msgAlreadyDefined}

\* C18: an error returned by processTruple is of one of the four kinds and
\* carries the location of a statement received so far.
C18_ErrorsLocated ==
    err # NoErr /\ pc # "panicked" =>
        /\ err.kind \in ErrorKinds
        /\ err.parseError
        /\ err.meta \in 1..recvLoc

\* the Document made last: entities are made in heap order
Documents(s) == {i \in 1..Len(s.heap) : s.heap[i].kind = "Document"}

LastDocument(s) ==
    IF Documents(s) = {} THEN Nil
    ELSE CHOOSE i \in Documents(s) : \A j \in Documents(s) : j <= i

\* C21: the root is absent exactly when no Document builder was made; else it
\* is the entity of the Document builder made last, also when the replay of
\* its buffer failed; and Parse returns that root.
C21_RootDocument ==
    pc # "panicked" =>
        /\ LastDocument(ps) = Nil
              <=> ~\E k \in DOMAIN ps.index : ps.index[k].t = typeDocument
        /\ \A k \in DOMAIN ps.index :
              ps.index[k].t = typeDocument => ps.heap[ps.index[k].ptr].kind = "Document"
        /\ pc # "freed" => ps.doc = LastDocument(ps)
        /\ ret.returned => ret.doc = LastDocument(ps)

\* C21 witness: Parse returned the second of two documents, made by a type
\* assertion whose replay failed
C21_Witness ==
    /\ ret.returned
    /\ ret.err # NoErr
    /\ statement = IsA(nodeD, typeDocument)
    /\ Cardinality(Documents(ps)) = 2
    /\ ret.doc = ps.index[termStr(nodeD)].ptr
    /\ termStr(nodeD) \in DOMAIN ps.buffer

-----------------------------------------------------------------------------
(* The licence specification: Parse over a vocabulary of licence sets, a   *)
(* listed licence, an extracted licence and a package.                     *)

nodeS == blank("s")
nodeMIT == uri("http://spdx.org/licenses/MIT")
nodeRef == blank("LicenseRef-1")

LicTriples ==
    { IsA(nodeS, typeAnyLicence),
      IsA(nodeS, typeConjunctiveSet),
      IsA(nodeS, typeDisjunctiveSet),
      Statement(nodeS, uri("member"), nodeMIT),
      Statement(nodeS, uri("member"), nodeRef),
      Statement(nodeS, uri("member"), nodeS),
      Statement(nodeS, uri("member"), nodeP),
      IsA(nodeP, typePackage),
      Statement(nodeP, uri("licenseConcluded"), nodeS) }

InitLic == InitParse(MaxLicTriples)

NextLic ==
    \/ \E stm \in LicTriples : ParseLoop(stm)
    \/ ParseDrain
    \/ ParseReturn
    \/ Free

SpecLic == InitLic /\ [][NextLic]_vars

\* this step hands statement' to processTruple
Feeds == fed' = fed + 1

Subj == termStr(statement'.Subject)
Obj == termStr(statement'.Object)

Members(s, k) == Get(s.heap[s.index[k].ptr], "member")

SetKind(t) ==
    IF t = typeConjunctiveSet THEN "ConjunctiveLicenceSet" ELSE "DisjunctiveLicenceSet"

\* this step asserts the type Conjunctive or Disjunctive for a node that is
\* an AbstractLicenceSet
Promotes ==
    /\ Feeds
    /\ statement'.Predicate = uri_nstype
    /\ statement'.Object \in {typeConjunctiveSet, typeDisjunctiveSet}
    /\ Subj \in DOMAIN ps.index
    /\ ps.index[Subj].t = typeAbstractLicenceSet

\* this step writes a member of a node that is a Conjunctive or Disjunctive set
AddsMember ==
    /\ Feeds
    /\ shortPrefix(statement'.Predicate) = "member"
    /\ Subj \in DOMAIN ps.index
    /\ ps.index[Subj].t \in {typeConjunctiveSet, typeDisjunctiveSet}
    /\ err' = NoErr

\* C5: the type assertion Disjunctive (Conjunctive) on an AbstractLicenceSet
\* succeeds and leaves, under the same key, a set of that kind with exactly
\* the members collected so far, in order; every later member write on the
\* node appends to that set.
C5_Promotion ==
    [][ /\ Promotes =>
            /\ err' = NoErr
            /\ DOMAIN ps'.index = DOMAIN ps.index
            /\ ps'.index[Subj].t = statement'.Object
            /\ ps'.heap[ps'.index[Subj].ptr].kind = SetKind(statement'.Object)
            /\ Members(ps', Subj) = Members(ps, Subj)
        /\ AddsMember =>
            /\ ps'.index[Subj] = ps.index[Subj]
            /\ Len(Members(ps', Subj)) = Len(Members(ps, Subj)) + 1
            /\ SubSeq(Members(ps', Subj), 1, Len(Members(ps, Subj))) = Members(ps, Subj)
      ]_vars

\* C5 witness: a Disjunctive set of three members whose first two are those
\* of the abstract set it was promoted from
C5_Witness ==
    /\ termStr(nodeS) \in DOMAIN ps.index
    /\ ps.index[termStr(nodeS)].t = typeDisjunctiveSet
    /\ Len(Members(ps, termStr(nodeS))) = 3
    /\ \E i \in 1..Len(ps.heap) :
          /\ ps.heap[i].kind = "LicenceSet"
          /\ Len(Get(ps.heap[i], "member")) = 2
          /\ Get(ps.heap[i], "member") = SubSeq(Members(ps, termStr(nodeS)), 1, 2)

\* this step asserts, for a node that is a Conjunctive or Disjunctive set,
\* the other of the two kinds
Retypes ==
    /\ Feeds
    /\ statement'.Predicate = uri_nstype
    /\ statement'.Object \in {typeConjunctiveSet, typeDisjunctiveSet}
    /\ Subj \in DOMAIN ps.index
    /\ ps.index[Subj].t \in {typeConjunctiveSet, typeDisjunctiveSet}
    /\ ps.index[Subj].t # statement'.Object

AnyLicenceUpdaters == {"anyOne", "anyList", "member"}

LicenceKinds == {typeLicence, typeExtractedLicence, typeConjunctiveSet, typeDisjunctiveSet}

\* this step writes a property that requires AnyLicence, on a resolved node,
\* with an object that is resolved too
RequiresAnyLicence ==
    /\ Feeds
    /\ statement'.Predicate # uri_nstype
    /\ Subj \in DOMAIN ps.index
    /\ has(ps.index[Subj], shortPrefix(statement'.Predicate))
    /\ updatersOf(ps.index[Subj])[shortPrefix(statement'.Predicate)].u \in AnyLicenceUpdaters
    /\ Obj \in DOMAIN ps.index

\* the licence value of a resolved node: a pointer to an ExtractedLicence, a
\* copy of a Licence or of a set
LicenceCell(s, k) ==
    IF s.heap[s.index[k].ptr].kind = "ExtractedLicence"
    THEN Ref(s.index[k].ptr)
    ELSE s.heap[s.index[k].ptr]

Field(s, k, property) == Get(s.heap[s.index[k].ptr], property)

\* C7: a property requiring AnyLicence succeeds and stores the target when
\* the object is resolved as LicenceReference, ExtractedLicence, Conjunctive
\* or Disjunctive set, and fails with Incompatible-Type, storing nothing,
\* when the object is resolved as a kind that is no licence.
C7_AnyLicence ==
    [][ RequiresAnyLicence =>
          /\ ps.index[Obj].t \in LicenceKinds =>
                /\ err' = NoErr
                /\ Field(ps', Subj, shortPrefix(statement'.Predicate)) # <<>>
                /\ Field(ps', Subj, shortPrefix(statement'.Predicate))
                      [Len(Field(ps', Subj, shortPrefix(statement'.Predicate)))]
                   = LicenceCell(ps, Obj)
          /\ ps.index[Obj].t \notin LicenceKinds \cup {typeAbstractLicenceSet} =>
                /\ err'.kind = msgIncompatibleTypes
                /\ \/ Field(ps', Subj, shortPrefix(statement'.Predicate)) = <<>>
                   \/ Field(ps', Subj, shortPrefix(statement'.Predicate))
                        = Field(ps, Subj, shortPrefix(statement'.Predicate))
      ]_vars

\* C7 witness: licenseConcluded of a package holds a set that was resolved
\* as Conjunctive before the property was written
C7_Witness ==
    /\ fed > 0
    /\ statement = Statement(nodeP, uri("licenseConcluded"), nodeS)
    /\ err = NoErr
    /\ termStr(nodeP) \in DOMAIN ps.index
    /\ Len(Field(ps, termStr(nodeP), "licenseConcluded")) = 1
    /\ Field(ps, termStr(nodeP), "licenseConcluded")[1].kind = "ConjunctiveLicenceSet"
    /\ Len(Get(Field(ps, termStr(nodeP), "licenseConcluded")[1], "member")) > 0

\* this step writes a property that requires AnyLicence, on a resolved node,
\* with an anonymous object that has no builder and no licenseref label
RefersToNewSet ==
    /\ Feeds
    /\ statement'.Predicate # uri_nstype
    /\ Subj \in DOMAIN ps.index
    /\ has(ps.index[Subj], shortPrefix(statement'.Predicate))
    /\ updatersOf(ps.index[Subj])[shortPrefix(statement'.Predicate)].u \in AnyLicenceUpdaters
    /\ Obj \notin DOMAIN ps.index
    /\ statement'.Object.k = "blank"
    /\ ~HasPrefix(ToLower(Chars(Obj)), Chars("licenseref"))

\* C11: a reference through an AnyLicence property to an anonymous node that
\* has no type yet succeeds and leaves the node an AbstractLicenceSet.
C11_ForwardSetReference ==
    [][ RefersToNewSet =>
            /\ err' = NoErr
            /\ Obj \in DOMAIN ps'.index
            /\ ps'.index[Obj].t = typeAbstractLicenceSet ]_vars

\* C13: a key that has a builder keeps it in every later step, with the same
\* property table; its kind and its entity stay, except that an
\* AbstractLicenceSet may become a Conjunctive or a Disjunctive set, and a
\* Conjunctive or Disjunctive set never changes again.
C13_KindLifecycle ==
    [][ \A k \in DOMAIN ps.index :
          /\ k \in DOMAIN ps'.index
          /\ ps'.index[k].updaters = ps.index[k].updaters
          /\ \/ /\ ps'.index[k].t = ps.index[k].t
                /\ ps'.index[k].ptr = ps.index[k].ptr
             \/ /\ ps.index[k].t = typeAbstractLicenceSet
                /\ ps'.index[k].t \in {typeConjunctiveSet, typeDisjunctiveSet} ]_vars

\* C13 witness: a set promoted to Disjunctive kept its kind when it was
\* asserted Conjunctive
C13_Witness ==
    /\ fed > 2
    /\ statement = IsA(nodeS, typeConjunctiveSet)
    /\ err # NoErr
    /\ termStr(nodeS) \in DOMAIN ps.index
    /\ ps.index[termStr(nodeS)].t = typeDisjunctiveSet
    /\ \E i \in 1..Len(ps.heap) : ps.heap[i].kind = "LicenceSet"

\* this step asserts, for a node that has a builder, a type that is the kind
\* of the node, or AnyLicence when the kind is a licence kind
AssertsCompatible ==
    /\ Feeds
    /\ statement'.Predicate = uri_nstype
    /\ Subj \in DOMAIN ps.index
    /\ \/ statement'.Object = ps.index[Subj].t
       \/ statement'.Object = typeAnyLicence /\ ps.index[Subj].t \in LicenceKinds

\* C15: a type assertion compatible with the kind of a resolved node returns
\* without error and changes neither the index, the buffer nor any entity.
C15_CompatibleNoChange ==
    [][ AssertsCompatible =>
            /\ err' = NoErr
            /\ ps'.index = ps.index
            /\ ps'.buffer = ps.buffer
            /\ ps'.heap = ps.heap ]_vars

\* the kind the term of a node gives it when it is created as AnyLicence;
\* LicenseRef-1 is the one label of the vocabulary that starts with
\* "licenseref" when case is ignored
KindOfTerm(term) ==
    IF term.k = "uri" THEN [t |-> typeLicence, kind |-> "Licence"]
    ELSE IF term = nodeRef THEN [t |-> typeExtractedLicence, kind |-> "ExtractedLicence"]
    ELSE [t |-> typeAbstractLicenceSet, kind |-> "LicenceSet"]

\* the node has no builder before the step and has, after it, the builder
\* and the entity its term asks for
CreatedByTerm(node) ==
    /\ termStr(node) \in DOMAIN ps'.index
    /\ ps'.index[termStr(node)].t = KindOfTerm(node).t
    /\ ps'.heap[ps'.index[termStr(node)].ptr].kind = KindOfTerm(node).kind

\* this step asserts AnyLicence for a node that has no builder
AssertsAnyLicence ==
    /\ Feeds
    /\ statement'.Predicate = uri_nstype
    /\ statement'.Object = typeAnyLicence
    /\ statement'.Subject.k # "literal"
    /\ Subj \notin DOMAIN ps.index

\* this step writes a property that requires AnyLicence, on a resolved node,
\* with an object that has no builder
RequiresNewAnyLicence ==
    /\ Feeds
    /\ statement'.Predicate # uri_nstype
    /\ Subj \in DOMAIN ps.index
    /\ has(ps.index[Subj], shortPrefix(statement'.Predicate))
    /\ updatersOf(ps.index[Subj])[shortPrefix(statement'.Predicate)].u \in AnyLicenceUpdaters
    /\ statement'.Object.k # "literal"
    /\ Obj \notin DOMAIN ps.index

\* C17: a node without a builder that is asserted or required as AnyLicence
\* gets its kind from its term: Licence for a URI, ExtractedLicence for a
\* blank label starting with "licenseref" whatever the case, else
\* AbstractLicenceSet; and no builder has the kind AnyLicence.
C17_AnyLicenceKind ==
    [][ /\ AssertsAnyLicence => CreatedByTerm(statement'.Subject)
        /\ RequiresNewAnyLicence => CreatedByTerm(statement'.Object)
        /\ \A k \in DOMAIN ps'.index : ps'.index[k].t # typeAnyLicence ]_vars

\* C17 witness: the three kinds, each made from a term that was asserted or
\* required as AnyLicence
C17_Witness ==
    /\ fed = 3
    /\ {termStr(nodeS), termStr(nodeMIT), termStr(nodeRef)} \subseteq DOMAIN ps.index
    /\ ps.index[termStr(nodeS)].t = typeAbstractLicenceSet
    /\ ps.index[termStr(nodeMIT)].t = typeLicence
    /\ ps.index[termStr(nodeRef)].t = typeExtractedLicence
    /\ ps.heap[ps.index[termStr(nodeRef)].ptr].kind = "ExtractedLicence"

-----------------------------------------------------------------------------
(* The order specification: Parse as a function of the whole stream,       *)
(* applied to two streams that hold the same statements in two orders.     *)

nodeF == uri("f")
nodeM == blank("m")
nodeX == blank("x")
nodeP1 == uri("p1")
nodeP2 == uri("p2")

Swap(stream, i, j) == [stream EXCEPT ![i] = stream[j], ![j] = stream[i]]

\* the sequences of k distinct elements of S
Orders(S, k) == {q \in [1..k -> S] : \A i, j \in 1..k : i # j => q[i] # q[j]}

Scenario(kind, a, b, i, j) == [kind |-> kind, a |-> a, b |-> b, i |-> i, j |-> j]

\* the node N of a kind, typed and reachable from the document, and the
\* single-valued reference properties of its table
Contexts ==
    { [N |-> nodeD, P |-> "creationInfo", pre |-> <<IsA(nodeD, typeDocument)>>] }
    \cup
    { [N |-> nodeP, P |-> pr,
       pre |-> <<IsA(nodeD, typeDocument),
                 Statement(nodeD, uri("describesPackage"), nodeP),
                 IsA(nodeP, typePackage)>>] :
         pr \in {"packageVerificationCode", "checksum", "licenseConcluded", "licenseDeclared"} }
    \cup
    { [N |-> nodeF, P |-> pr,
       pre |-> <<IsA(nodeD, typeDocument),
                 Statement(nodeD, uri("referencesFile"), nodeF),
                 IsA(nodeF, typeFile)>>] :
         pr \in {"checksum", "licenseConcluded"} }

TargetNodes == {nodeM, nodeRef, nodeMIT}

TargetTypes ==
    { typeCreationInfo, typeVerificationCode, typeChecksum, typePackage, typeLicence,
      typeExtractedLicence, typeConjunctiveSet, typeDisjunctiveSet, typeAnyLicence }

\* the type of M before (a) and after (b) the reference to M
RefScenarios ==
    { Scenario("ref",
               c.pre \o <<IsA(M, TM), Statement(c.N, uri(c.P), M)>>,
               c.pre \o <<Statement(c.N, uri(c.P), M), IsA(M, TM)>>,
               Len(c.pre) + 1, Len(c.pre) + 2) :
        c \in Contexts, M \in TargetNodes, TM \in TargetTypes }

LibfooTriples ==
    { IsA(nodeD, typeDocument),
      Statement(nodeD, uri("describesPackage"), nodeP),
      IsA(nodeP, typePackage),
      Statement(nodeP, uri("name"), literal("libfoo")) }

Position(stream, stm) == CHOOSE i \in 1..Len(stream) : stream[i] = stm

\* every order of the four statements with describesPackage before the type
\* of the package (a), and the same order with the two exchanged (b)
LibfooScenarios ==
    { Scenario("libfoo", q,
               Swap(q, Position(q, Statement(nodeD, uri("describesPackage"), nodeP)),
                       Position(q, IsA(nodeP, typePackage))),
               Position(q, Statement(nodeD, uri("describesPackage"), nodeP)),
               Position(q, IsA(nodeP, typePackage))) :
        q \in { o \in Orders(LibfooTriples, 4) :
                  Position(o, Statement(nodeD, uri("describesPackage"), nodeP))
                     < Position(o, IsA(nodeP, typePackage)) } }

\* statements the table of a kind accepts, with no single-valued property twice
Pools ==
    { [t |-> typeCreationInfo,
       stms |-> { Statement(nodeX, uri("creator"), literal("Person: a")),
                  Statement(nodeX, uri("creator"), literal("Tool: b")),
                  Statement(nodeX, uri("rdfs:comment"), literal("z")),
                  Statement(nodeX, uri("created"), literal("d1")) }],
      [t |-> typeDocument,
       stms |-> { Statement(nodeX, uri("describesPackage"), nodeP1),
                  Statement(nodeX, uri("describesPackage"), nodeP2),
                  Statement(nodeX, uri("specVersion"), literal("v")) }] }

\* k statements about the unresolved node x, then its type (a); the same
\* with two of the statements exchanged (b)
ReplayScenarios ==
    UNION { UNION { { Scenario("replay", Append(q, IsA(nodeX, pool.t)),
                               Swap(Append(q, IsA(nodeX, pool.t)), i, j), i, j) :
                        i \in 1..(MaxBuffered - 1), j \in 2..MaxBuffered } :
                    q \in Orders(pool.stms, MaxBuffered) } :
            pool \in Pools }

SetProperties == {"licenseConcluded", "licenseDeclared", "licenseInfoFromFiles"}

\* a set with two members, referenced by a package of the document after its
\* members (a) and between them (b)
SetScenarios ==
    { Scenario("set",
               <<IsA(nodeD, typeDocument), Statement(nodeD, uri("describesPackage"), nodeP),
                 IsA(nodeP, typePackage), IsA(nodeS, T),
                 Statement(nodeS, uri("member"), q[1]), Statement(nodeS, uri("member"), q[2]),
                 Statement(nodeP, uri(pr), nodeS)>>,
               <<IsA(nodeD, typeDocument), Statement(nodeD, uri("describesPackage"), nodeP),
                 IsA(nodeP, typePackage), IsA(nodeS, T),
                 Statement(nodeS, uri("member"), q[1]), Statement(nodeP, uri(pr), nodeS),
                 Statement(nodeS, uri("member"), q[2])>>,
               6, 7) :
        pr \in SetProperties, T \in {typeConjunctiveSet, typeDisjunctiveSet},
        q \in Orders({nodeMIT, nodeRef}, 2) }

nodeA == uri("fa")
nodeB == uri("fb")

Dependencies ==
    { Statement(nodeA, uri("fileDependency"), nodeB),
      Statement(nodeB, uri("fileDependency"), nodeA),
      Statement(nodeA, uri("fileDependency"), nodeA) }

\* files that depend on each other, all statements buffered before the first
\* type; one file typed (a), or the other and then the first (b)
CycleScenarios ==
    { Scenario("cycle",
               Append(c.q, IsA(c.x, typeFile)),
               c.q \o <<IsA(c.y, typeFile), IsA(c.x, typeFile)>>,
               Len(c.q) + 1, Len(c.q) + 2) :
        c \in { [q |-> q, x |-> x, y |-> y] :
                  q \in Orders(Dependencies, 2) \cup Orders(Dependencies, 3),
                  x \in {nodeA, nodeB}, y \in {nodeA, nodeB} } }

\* a literal where a licence is expected: as the object of a property that
\* requires AnyLicence, written at once (a) or replayed (b), and as the
\* subject of the type assertion AnyLicence
LiteralScenarios ==
    { Scenario("literal",
               <<IsA(nodeP, typePackage), Statement(nodeP, uri(pr), literal("MIT"))>>,
               <<Statement(nodeP, uri(pr), literal("MIT")), IsA(nodeP, typePackage)>>,
               1, 2) : pr \in SetProperties }
    \cup
    { Scenario("literal",
               <<IsA(literal("MIT"), typeAnyLicence), IsA(nodeP, typePackage)>>,
               <<IsA(nodeP, typePackage), IsA(literal("MIT"), typeAnyLicence)>>,
               1, 2) }

Scenarios ==
    RefScenarios \cup LibfooScenarios \cup {c \in ReplayScenarios : c.i < c.j}
    \cup SetScenarios \cup {c \in CycleScenarios : c.a[c.i].Subject # c.b[c.i].Subject}
    \cup LiteralScenarios

InitOrder ==
    /\ ps = NewParser
    /\ err = NoErr
    /\ pc = "order"
    /\ n = 0
    /\ statement = NoStatement
    /\ recvStm = 0
    /\ recvLoc = 0
    /\ fed = 0
    /\ ret = NoRet
    /\ scen \in Scenarios
    /\ outA = NoOut
    /\ outB = NoOut

Ran(r) == [done |-> TRUE, doc |-> r.doc, err |-> r.err, ps |-> r.ps]

RunA ==
    /\ ~outA.done
    /\ outA' = Ran(Parse(scen.a))
    /\ UNCHANGED <<ps, err, pc, n, statement, recvStm, recvLoc, fed, ret, scen, outB>>

RunB ==
    /\ ~outB.done
    /\ outB' = Ran(Parse(scen.b))
    /\ UNCHANGED <<ps, err, pc, n, statement, recvStm, recvLoc, fed, ret, scen, outA>>

NextOrder == RunA \/ RunB

SpecOrder == InitOrder /\ [][NextOrder]_vars

\* An entity as a reader of the document sees it: pointers followed, Meta
\* (the line a statement was on) left out, unwritten fields left out.
RECURSIVE ViewEntity(_, _, _)
RECURSIVE ViewCell(_, _, _)

ViewEntity(heap, e, d) ==
    [kind |-> e.kind,
     f |-> [fld \in {x \in DOMAIN e.f : e.f[x] # <<>>} |->
              [i \in 1..Len(e.f[fld]) |-> ViewCell(heap, e.f[fld][i], d)]]]

ViewCell(heap, c, d) ==
    IF "val" \in DOMAIN c THEN [kind |-> "value", f |-> c.val]
    ELSE IF d = 0 THEN [kind |-> "deeper", f |-> <<>>]
    ELSE IF "ref" \in DOMAIN c THEN ViewEntity(heap, heap[c.ref], d - 1)
    ELSE ViewEntity(heap, c, d - 1)

DocView(o) ==
    IF o.doc = Nil THEN [kind |-> "nil", f |-> <<>>]
    ELSE ViewEntity(o.ps.heap, o.ps.heap[o.doc], ViewDepth)

Succeeded(o) == o.err = NoErr

\* C1: with the type of M before or after the single-valued reference
\* (N, P, M), the two parses both succeed or both fail, and when they succeed
\* they return the same document.
C1_OrderIndependent ==
    scen.kind = "ref" /\ outA.done /\ outB.done =>
        /\ Succeeded(outA) <=> Succeeded(outB)
        /\ Succeeded(outA) /\ Succeeded(outB) => DocView(outA) = DocView(outB)

\* the parse succeeded with a Document whose single Package is named libfoo
Libfoo(o) ==
    /\ Succeeded(o)
    /\ o.doc # Nil
    /\ o.ps.heap[o.doc].kind = "Document"
    /\ Len(Get(o.ps.heap[o.doc], "describesPackage")) = 1
    /\ DocView(o) =
          [kind |-> "Document",
           f |-> ("describesPackage" :>
                    <<[kind |-> "Package",
                       f |-> ("name" :> <<[kind |-> "value", f |-> "libfoo"]>>)]>>)]

\* C2: the four statements of the libfoo stream, in any order, with
\* describesPackage before or after the type of the package, parse to a
\* Document with exactly one Package, named libfoo.
C2_Libfoo ==
    scen.kind = "libfoo" =>
        /\ outA.done => Libfoo(outA)
        /\ outB.done => Libfoo(outB)

\* C2 witness: both orders were parsed, one with the name and the reference
\* arriving before any type
C2_Witness ==
    /\ scen.kind = "libfoo"
    /\ outA.done /\ outB.done
    /\ scen.a[1] = Statement(nodeP, uri("name"), literal("libfoo"))
    /\ scen.a[2] = Statement(nodeD, uri("describesPackage"), nodeP)
    /\ Libfoo(outA) /\ Libfoo(outB)

\* the calls of apply on node x, in the order they were made
Applied(o) ==
    SelectSeq(o.ps.log, LAMBDA e : e.k = termStr(nodeX))

\* the statements of a stream that write a property, in arrival order
Writes(stream, property) ==
    SelectSeq(stream, LAMBDA stm : shortPrefix(stm.Predicate) = property)

ListValued == {"creator", "describesPackage"}

\* what a list-valued statement adds to its list: a value, or the node a
\* pointer leads to; Meta left out
Added(stm) ==
    IF stm.Object.k = "literal"
    THEN [kind |-> "value", f |-> termStr(stm.Object)]
    ELSE [kind |-> "node", f |-> termStr(stm.Object)]

Element(o, c) ==
    IF "val" \in DOMAIN c THEN [kind |-> "value", f |-> c.val]
    ELSE [kind |-> "node", f |-> CHOOSE k \in DOMAIN o.ps.index : o.ps.index[k].ptr = c.ref]

\* a list of node x
ListOfX(o, property) ==
    [i \in 1..Len(Get(o.ps.heap[o.ps.index[termStr(nodeX)].ptr], property)) |->
        Element(o, Get(o.ps.heap[o.ps.index[termStr(nodeX)].ptr], property)[i])]

\* the buffered statements of the stream were applied in arrival order, each
\* with its own line, and every list holds its values in arrival order
InArrivalOrder(o, stream) ==
    /\ Succeeded(o)
    /\ Len(Applied(o)) = Len(stream) - 1
    /\ \A i \in 1..(Len(stream) - 1) :
          /\ Applied(o)[i].property = shortPrefix(stream[i].Predicate)
          /\ Applied(o)[i].obj = stream[i].Object
          /\ Applied(o)[i].meta = i
    /\ \A property \in ListValued :
          ListOfX(o, property)
             = [i \in 1..Len(Writes(stream, property)) |-> Added(Writes(stream, property)[i])]

\* C3: statements buffered for an unresolved node are applied, when its type
\* arrives, in their arrival order; a list holds its values in arrival order,
\* so exchanging two buffered statements of one list exchanges the elements.
C3_ReplayOrder ==
    scen.kind = "replay" =>
        /\ outA.done => InArrivalOrder(outA, scen.a)
        /\ outB.done => InArrivalOrder(outB, scen.b)
        /\ /\ outA.done /\ outB.done
           /\ scen.a[scen.i].Predicate = scen.a[scen.j].Predicate
           /\ shortPrefix(scen.a[scen.i].Predicate) \in ListValued
           => /\ Len(ListOfX(outA, shortPrefix(scen.a[scen.i].Predicate))) = 2
              /\ ListOfX(outB, shortPrefix(scen.a[scen.i].Predicate))
                   = Swap(ListOfX(outA, shortPrefix(scen.a[scen.i].Predicate)), 1, 2)
              /\ ListOfX(outB, shortPrefix(scen.a[scen.i].Predicate))
                   # ListOfX(outA, shortPrefix(scen.a[scen.i].Predicate))

\* C3 witness: two creators buffered in one order and in the other
C3_Witness ==
    /\ scen.kind = "replay"
    /\ outA.done /\ outB.done
    /\ scen.a[1] = Statement(nodeX, uri("creator"), literal("Person: a"))
    /\ scen.a[3] = Statement(nodeX, uri("creator"), literal("Tool: b"))
    /\ scen.i = 1 /\ scen.j = 3
    /\ ListOfX(outA, "creator")
          = <<[kind |-> "value", f |-> "Person: a"], [kind |-> "value", f |-> "Tool: b"]>>
    /\ ListOfX(outB, "creator")
          = <<[kind |-> "value", f |-> "Tool: b"], [kind |-> "value", f |-> "Person: a"]>>

\* the licence set the package of the document holds under the property the
\* scenario writes
ReferencedSet(o) ==
    DocView(o).f.describesPackage[1].f[termStr(scen.a[7].Predicate)][1]

\* the set of node s, as the parser holds it
SetOfS(o) == ViewEntity(o.ps.heap, o.ps.heap[o.ps.index[termStr(nodeS)].ptr], ViewDepth)

SetComplete(o) ==
    o.done /\ Succeeded(o) =>
        /\ Len(SetOfS(o).f.member) = 2
        /\ ReferencedSet(o) = SetOfS(o)

\* C12: after a successful parse the licence set the document reaches through
\* a package holds every member asserted for its node, in arrival order,
\* with the member statements before or after the reference to the set.
C12_SetsComplete ==
    scen.kind = "set" => SetComplete(outA) /\ SetComplete(outB)

\* the calls of apply for the statement of line i, type assertions left out
Dispatches(o, i) ==
    {j \in 1..Len(o.ps.log) : o.ps.log[j].meta = i /\ o.ps.log[j].property # "ns:type"}

\* every statement of the stream that is no type assertion was dispatched at
\* most once, to the builder of its subject, and exactly once when the parse
\* succeeded and its subject has a builder
DispatchedOnce(o, stream) ==
    o.done =>
        \A i \in 1..Len(stream) :
            stream[i].Predicate # uri_nstype =>
                /\ Cardinality(Dispatches(o, i)) <= 1
                /\ \A j \in Dispatches(o, i) :
                      /\ o.ps.log[j].k = termStr(stream[i].Subject)
                      /\ o.ps.log[j].property = shortPrefix(stream[i].Predicate)
                      /\ o.ps.log[j].obj = stream[i].Object
                /\ Succeeded(o) /\ termStr(stream[i].Subject) \in DOMAIN o.ps.index
                      => Cardinality(Dispatches(o, i)) = 1

\* C19: every statement that is no type assertion is dispatched to a builder
\* at most once, at once or during the one replay of the buffer of its
\* subject, also when the replay resolves other nodes.
C19_DispatchedOnce ==
    DispatchedOnce(outA, scen.a) /\ DispatchedOnce(outB, scen.b)

\* C19 witness: the buffered statement of file fb was replayed while the
\* buffer of file fa was being replayed
C19_Witness ==
    /\ scen.kind = "cycle"
    /\ outA.done /\ Succeeded(outA)
    /\ scen.a = <<Statement(nodeA, uri("fileDependency"), nodeB),
                  Statement(nodeB, uri("fileDependency"), nodeA),
                  IsA(nodeA, typeFile)>>
    /\ Len(outA.ps.log) = 2
    /\ outA.ps.log[1].meta = 2
    /\ outA.ps.log[2].meta = 1

\* the nodes a stream names
KeysOf(stream) ==
    {termStr(stream[i].Subject) : i \in 1..Len(stream)}
    \cup {termStr(stream[i].Object) :
            i \in {j \in 1..Len(stream) : stream[j].Predicate # uri_nstype}}

\* the files a file depends on, as node keys
DependsOn(o, node) ==
    [i \in 1..Len(Get(o.ps.heap[o.ps.index[termStr(node)].ptr], "fileDependency")) |->
        Element(o, Get(o.ps.heap[o.ps.index[termStr(node)].ptr], "fileDependency")[i])]

\* the nodes a stream gives a type
TypedIn(stream) ==
    {termStr(stream[i].Subject) :
        i \in {j \in 1..Len(stream) : stream[j].Predicate = uri_nstype}}

\* the parse came to its end without error; every typed node has a builder;
\* every node that has a builder was made once and has no buffer left; no
\* call of setType was nested deeper than there are nodes; and each file
\* that has a builder has its dependencies in arrival order
ResolvedCycle(o, stream) ==
    o.done =>
        /\ Succeeded(o)
        /\ TypedIn(stream) \subseteq DOMAIN o.ps.index
        /\ DOMAIN o.ps.index \subseteq KeysOf(stream)
        /\ Len(o.ps.heap) = Cardinality(DOMAIN o.ps.index)
        /\ \A k1, k2 \in DOMAIN o.ps.index :
              o.ps.index[k1].ptr = o.ps.index[k2].ptr => k1 = k2
        /\ DOMAIN o.ps.buffer \cap DOMAIN o.ps.index = {}
        /\ o.ps.depth = 0
        /\ o.ps.deepest <= Cardinality(DOMAIN o.ps.index)
        /\ \A node \in {nodeA, nodeB} :
              termStr(node) \in DOMAIN o.ps.index =>
                  DependsOn(o, node)
                     = [i \in 1..Len(SelectSeq(stream, LAMBDA stm :
                                        stm.Subject = node /\ stm.Predicate # uri_nstype)) |->
                           Added(SelectSeq(stream, LAMBDA stm :
                                    stm.Subject = node /\ stm.Predicate # uri_nstype)[i])]

\* C20: a stream whose buffered statements refer to each other in a cycle is
\* parsed to its end: each node is made exactly once and the calls of
\* setType are nested no deeper than there are node keys.
C20_CyclesResolve ==
    scen.kind = "cycle" => ResolvedCycle(outA, scen.a) /\ ResolvedCycle(outB, scen.b)

\* C20 witness: fa and fb depend on each other and fa on itself; typing fa
\* made both files, with setType nested twice
C20_Witness ==
    /\ scen.kind = "cycle"
    /\ outA.done /\ outB.done
    /\ Len(scen.a) = 4
    /\ scen.a[4] = IsA(nodeA, typeFile)
    /\ outA.ps.deepest = 2
    /\ Len(outA.ps.heap) = 2
    /\ DependsOn(outA, nodeB) = <<[kind |-> "node", f |-> termStr(nodeA)]>>
    /\ Len(DependsOn(outA, nodeA)) = 2

\* the parse ended by returning, and left no nil builder in the index
EndedNormally(o) ==
    o.done =>
        /\ o.err # Panic
        /\ \A k \in DOMAIN o.ps.index : o.ps.index[k] # nilBuilder

\* C22: every call of processTruple returns, with nil or with an error, and
\* the index holds no nil builder, also when AnyLicence is asserted of or
\* required from a literal.
C22_NoAbort ==
    EndedNormally(outA) /\ EndedNormally(outB)

=============================================================================
